---- MODULE Spec2Model ----
(***************************************************************************)
(* Arena tracker: the profile synchronisation of ProfileManager            *)
(* (src/app/components/profile-manager.tsx) over the remote `profiles`     *)
(* table and its change notifications (lib/database, src/unnamed/part_002).*)
(*                                                                         *)
(* A session is one mounted ProfileManager.  Every `await` of a handler is *)
(* two steps: the store serves the request (Serve...), then the handler's  *)
(* continuation runs on the response.                                      *)
(***************************************************************************)
EXTENDS Integers, Sequences, FiniteSets, TLC

\* ----------------------------------------------------------------- bounds
MaxOps == 2        \* clicks of the users, all sessions
MaxFail == 1       \* remote requests that fail

Sessions == {1, 2}
Keys == {"Ahri", "Zed"}
\* all champion names, in the order of localeCompare
Champions == <<"Ahri", "Lux", "Zed">>
\* the tiles the page passes to the grid
Tiles == <<"Zed", "Ahri">>

SP == " "
Me == <<"M", "e">>
MyFriend == <<"M", "y", SP, "F", "r", "i", "e", "n", "d">>
\* what the user types into the add-profile form / the edit-name input
NameInputs == {<< >>, <<SP>>, <<SP, "A">>}
RenameInputs == {<<"B">>}

\* ------------------------------------------------------------------ types
\* Profile (types): id, name, firstplacechampions.  id 0 stands for null.
NoProfile == [id |-> 0, name |-> << >>, fpc |-> << >>]
Profile(i, n, f) == [id |-> i, name |-> n, fpc |-> f]

Range(seq) == {seq[i] : i \in 1..Len(seq)}
AsSet(arr) == Range(arr)
\* no key occurs twice in the array
NoDup(arr) == \A i, j \in 1..Len(arr) : arr[i] = arr[j] => i = j

RECURSIVE Filter(_, _)
\* Array.prototype.filter, by id
Filter(list, id) ==
    IF list = << >> THEN << >>
    ELSE IF Head(list).id = id THEN Filter(Tail(list), id)
         ELSE <<Head(list)>> \o Filter(Tail(list), id)

\* Array.prototype.find(p => p.id === id), NoProfile for undefined
Find(list, id) ==
    IF \E i \in 1..Len(list) : list[i].id = id
    THEN list[CHOOSE i \in 1..Len(list) :
                 /\ list[i].id = id
                 /\ \A j \in 1..(i - 1) : list[j].id # id]
    ELSE NoProfile

\* list[0] || null
First(list) == IF Len(list) > 0 THEN list[1] ELSE NoProfile

RECURSIVE TrimStart(_)
TrimStart(str) ==
    IF str # << >> /\ Head(str) = SP THEN TrimStart(Tail(str)) ELSE str
RECURSIVE TrimEnd(_)
TrimEnd(str) ==
    IF str # << >> /\ str[Len(str)] = SP
    THEN TrimEnd(SubSeq(str, 1, Len(str) - 1)) ELSE str
\* String.prototype.trim as handleAddProfile uses it
Trim(str) == TrimEnd(TrimStart(str))

\* indexOf(champion, 1): the search starts behind the first element
IndexOfFromSecond(arr, champion) ==
    IF \E i \in 2..Len(arr) : arr[i] = champion
    THEN CHOOSE i \in 2..Len(arr) :
            /\ arr[i] = champion
            /\ \A j \in 2..(i - 1) : arr[j] # champion
    ELSE 0

\* indexOf(champion): 0 for -1
IndexOf(arr, champion) ==
    IF \E i \in 1..Len(arr) : arr[i] = champion
    THEN CHOOSE i \in 1..Len(arr) :
            /\ arr[i] = champion
            /\ \A j \in 1..(i - 1) : arr[j] # champion
    ELSE 0

\* splice(index, 1)
Splice1(arr, index) ==
    SubSeq(arr, 1, index - 1) \o SubSeq(arr, index + 1, Len(arr))

\* a toggle that pushes whatever indexOf found
ToggleArrayPush(arr, champion) == Append(arr, champion)

\* the array toggleChampionWin leaves in selectedProfile.firstplacechampions
ToggleArray(arr, champion) ==
    IF IndexOf(arr, champion) > 0
    THEN Splice1(arr, IndexOf(arr, champion))
    ELSE Append(arr, champion)

\* -------------------------------------------------------------- variables
VARIABLES
    remote,            \* table `profiles`, in created_at order
    nextId,            \* next id the store assigns
    subFetch,          \* per session: getProfiles calls of processUpdate in flight
    isProcessing,      \* per session: the flag of subscribeToProfiles
    subscribed,        \* per session: mounted, channel not yet unsubscribed
    connectionStatus,  \* per session
    loading,           \* per session
    profiles,          \* per session: state `profiles`
    selectedProfile,   \* per session: state `selectedProfile`
    selAlias,          \* selectedProfile is the object profiles holds under its id
    editingProfile,    \* per session: state `editingProfile`
    editSel,           \* editingProfile shares its array with selectedProfile
    editList,          \* editingProfile shares its array with the entry of profiles
    showDeleteConfirm, \* per session: profile id or 0
    confirmation,      \* per session: state `confirmation` of the ImageGrid
    sortMode,          \* per session: state `sortMode` of the ImageGrid
    sortDirection,     \* per session: state `sortDirection` of the ImageGrid
    images,            \* prop `images`: the names of the tiles, as passed
    ops,               \* per session: handler invocations suspended on an await
    delivered,         \* per session: argument of the last subscription callback
    nOps,              \* user operations issued so far
    failures,          \* failed requests so far
    last               \* the refusal or the confirm just made, if the last step was one

remoteVars == <<remote, nextId>>
subVars == <<subFetch, isProcessing, delivered>>
localVars == <<profiles, selectedProfile, selAlias, editingProfile, editSel,
               editList, showDeleteConfirm>>
connVars == <<connectionStatus, loading>>
viewVars == <<sortMode, sortDirection, images>>
gridVars == <<confirmation, sortMode, sortDirection, images>>
vars == <<remote, nextId, subFetch, isProcessing, subscribed,
          connectionStatus, loading, profiles, selectedProfile, selAlias,
          editingProfile, editSel, editList, showDeleteConfirm,
          confirmation, sortMode, sortDirection, images, ops, delivered,
          nOps, failures, last>>

\* a suspended handler: which handler, which await, the request's state,
\* the payload sent, the response, what the handler accumulated, the
\* selectedProfile id its closure holds, and (for the record) the champion
\* toggled and the session's profiles and selectedProfile at the invocation
Op(kind, pc, arg) ==
    [kind |-> kind, pc |-> pc, st |-> "req", arg |-> arg, data |-> << >>,
     acc |-> << >>, sel |-> 0, key |-> "", pre |-> << >>]

\* a handler that returned at once, refusing: handler, session, outcome,
\* and the name typed
Step(act, s, info, name) == [act |-> act, s |-> s, info |-> info, name |-> name]

\* the step just taken was no refusal
Quiet == Step("", 0, "", << >>)

NotDelivered == <<"none">>

\* ConfirmationState: show, championName, action
Confirmation(show, championName, action) ==
    [show |-> show, championName |-> championName, action |-> action]

\* useState of confirmation, and what confirmToggle and cancelToggle set
NoConfirmation == Confirmation(FALSE, "", "add")

Init ==
    /\ remote = << >>
    /\ nextId = 1
    /\ subFetch = [s \in Sessions |-> << >>]
    /\ isProcessing = [s \in Sessions |-> FALSE]
    /\ subscribed = [s \in Sessions |-> TRUE]
    /\ connectionStatus = [s \in Sessions |-> "Testing..."]
    /\ loading = [s \in Sessions |-> TRUE]
    /\ profiles = [s \in Sessions |-> << >>]
    /\ selectedProfile = [s \in Sessions |-> NoProfile]
    /\ selAlias = [s \in Sessions |-> FALSE]
    /\ editingProfile = [s \in Sessions |-> NoProfile]
    /\ editSel = [s \in Sessions |-> FALSE]
    /\ editList = [s \in Sessions |-> FALSE]
    /\ showDeleteConfirm = [s \in Sessions |-> 0]
    /\ confirmation = [s \in Sessions |-> NoConfirmation]
    /\ sortMode = [s \in Sessions |-> "alphabetical"]
    /\ sortDirection = [s \in Sessions |-> "asc"]
    /\ images = Tiles
    /\ ops = [s \in Sessions |-> {Op("test", "test", NoProfile)}]
    /\ delivered = [s \in Sessions |-> NotDelivered]
    /\ nOps = 0
    /\ failures = 0
    /\ last = Quiet

\* ------------------------------------------------------------ remote store
Fetch(st, data) == [st |-> st, data |-> data]

\* processUpdate without its isProcessing test
ProcessUpdateUnguarded(s) == Append(subFetch[s], Fetch("req", << >>))

\* processUpdate up to its await, as the getProfiles calls in flight after
\* it: it returns at once while isProcessing
ProcessUpdate(s) ==
    IF isProcessing[s] THEN subFetch[s]
    ELSE Append(subFetch[s], Fetch("req", << >>))

\* a change of the table: the postgres_changes handler of every subscribed
\* channel calls processUpdate.  The event takes no time to arrive; a late
\* event is a fetch answered late.
Notify(event) ==
    /\ subFetch' = [s \in Sessions |->
                      IF subscribed[s] THEN ProcessUpdate(s) ELSE subFetch[s]]
    /\ isProcessing' = [s \in Sessions |-> isProcessing[s] \/ subscribed[s]]
    /\ last' = Quiet

Replace(s, op, new) == ops' = [ops EXCEPT ![s] = (@ \ {op}) \cup {new}]
Finish(s, op) == ops' = [ops EXCEPT ![s] = @ \ {op}]

Pending(s, op, pcs) == op \in ops[s] /\ op.pc \in pcs /\ op.st = "req"

\* testConnection's select on `profiles` is answered
ServeTest(s) ==
    \E op \in ops[s] :
        /\ Pending(s, op, {"test"})
        /\ Replace(s, op, [op EXCEPT !.st = "ok"])
        /\ last' = Quiet
        /\ UNCHANGED <<remoteVars, subVars, subscribed, connVars, localVars,
                       nOps, failures>>
        /\ UNCHANGED gridVars

\* getProfiles: select * order by created_at ascending
ServeGetProfiles(s) ==
    \E op \in ops[s] :
        /\ Pending(s, op, {"get", "refresh"})
        /\ Replace(s, op, [op EXCEPT !.st = "ok", !.data = remote])
        /\ last' = Quiet
        /\ UNCHANGED <<remoteVars, subVars, subscribed, connVars, localVars,
                       nOps, failures>>
        /\ UNCHANGED gridVars

\* the row createProfile inserts: [{ name, firstplacechampions: [] }]
InsertedRow(id, name) == Profile(id, name, << >>)

\* createProfile: insert(...).select().single()
ServeCreateProfile(s) ==
    \E op \in ops[s] :
        /\ Pending(s, op, {"c1", "c2", "create"})
        /\ LET row == InsertedRow(nextId, op.arg.name) IN
            /\ remote' = Append(remote, row)
            /\ Replace(s, op, [op EXCEPT !.st = "ok", !.data = <<row>>])
        /\ nextId' = nextId + 1
        /\ Notify("INSERT")
        /\ UNCHANGED <<delivered, subscribed, connVars, localVars, nOps, failures>>
        /\ UNCHANGED gridVars

\* the row after update({ name, firstplacechampions, updated_at })
UpdatedRow(row, profile) ==
    [row EXCEPT !.name = profile.name, !.fpc = profile.fpc]

\* updateProfile: update(...).eq('id', id).select().single();
\* single() on no row is an error
ServeUpdateProfile(s) ==
    \E op \in ops[s] :
        /\ Pending(s, op, {"update"})
        /\ IF \E i \in 1..Len(remote) : remote[i].id = op.arg.id
           THEN /\ remote' = [i \in 1..Len(remote) |->
                                IF remote[i].id = op.arg.id
                                THEN UpdatedRow(remote[i], op.arg) ELSE remote[i]]
                /\ Replace(s, op, [op EXCEPT !.st = "ok",
                                      !.data = <<Find(remote', op.arg.id)>>])
                /\ Notify("UPDATE")
           ELSE /\ Replace(s, op, [op EXCEPT !.st = "err"])
                /\ last' = Quiet
                /\ UNCHANGED <<remote, subFetch, isProcessing>>
        /\ UNCHANGED <<nextId, delivered, subscribed, connVars, localVars, nOps,
                       failures>>
        /\ UNCHANGED gridVars

\* deleteProfile: delete().eq('id', id)
ServeDeleteProfile(s) ==
    \E op \in ops[s] :
        /\ Pending(s, op, {"delete"})
        /\ IF \E i \in 1..Len(remote) : remote[i].id = op.arg.id
           THEN /\ remote' = Filter(remote, op.arg.id)
                /\ Notify("DELETE")
           ELSE /\ last' = Quiet
                /\ UNCHANGED <<remote, subFetch, isProcessing>>
        /\ Replace(s, op, [op EXCEPT !.st = "ok"])
        /\ UNCHANGED <<nextId, delivered, subscribed, connVars, localVars, nOps,
                       failures>>
        /\ UNCHANGED gridVars

\* any request answered with { error }: nothing is stored
ServeError(s) ==
    \E op \in ops[s] :
        /\ op \in ops[s] /\ op.st = "req"
        /\ failures < MaxFail
        /\ failures' = failures + 1
        /\ Replace(s, op, [op EXCEPT !.st = "err"])
        /\ last' = Quiet
        /\ UNCHANGED <<remoteVars, subVars, subscribed, connVars, localVars, nOps>>
        /\ UNCHANGED gridVars

\* ------------------------------------------------------------ subscription
SetAt(seq, i, v) == [seq EXCEPT ![i] = v]
RemoveAt(seq, i) == SubSeq(seq, 1, i - 1) \o SubSeq(seq, i + 1, Len(seq))

\* the store answers the getProfiles of processUpdate
ServeSubFetch(s) ==
    \E i \in 1..Len(subFetch[s]) :
        /\ subFetch[s][i].st = "req"
        /\ subFetch' = [subFetch EXCEPT ![s] = SetAt(@, i, Fetch("ok", remote))]
        /\ last' = Quiet
        /\ UNCHANGED <<remoteVars, isProcessing, delivered, subscribed, connVars,
                       localVars, ops, nOps, failures>>
        /\ UNCHANGED gridVars

\* ... or answers it with an error: getProfiles returns []
ServeSubFetchError(s) ==
    \E i \in 1..Len(subFetch[s]) :
        /\ subFetch[s][i].st = "req"
        /\ failures < MaxFail
        /\ failures' = failures + 1
        /\ subFetch' = [subFetch EXCEPT ![s] = SetAt(@, i, Fetch("err", << >>))]
        /\ last' = Quiet
        /\ UNCHANGED <<remoteVars, isProcessing, delivered, subscribed, connVars,
                       localVars, ops, nOps>>
        /\ UNCHANGED gridVars

\* a state setter of the component: nothing is set once it is unmounted
Set(f, s, v) == IF subscribed[s] THEN [f EXCEPT ![s] = v] ELSE f

\* the selectedProfile the subscription callback reads: the effect has no
\* dependencies, so its closure holds the value of the first render
ClosureSelectedProfile(s) == NoProfile

\* the callback ProfileManager passes to subscribeToProfiles
SubscriptionCallback(s, updatedProfiles) ==
    LET cur == ClosureSelectedProfile(s)
        updated == Find(updatedProfiles, cur.id)
        sel == IF cur # NoProfile
               THEN IF updated # NoProfile THEN updated
                    ELSE First(updatedProfiles)
               ELSE IF Len(updatedProfiles) > 0 THEN updatedProfiles[1]
                    ELSE selectedProfile[s]
        fresh == cur # NoProfile \/ Len(updatedProfiles) > 0
    IN  /\ profiles' = Set(profiles, s, updatedProfiles)
        /\ selectedProfile' = Set(selectedProfile, s, sel)
        /\ selAlias' = Set(selAlias, s, fresh /\ sel # NoProfile)
        /\ editSel' = Set(editSel, s, IF fresh THEN FALSE ELSE editSel[s])
        /\ editList' = Set(editList, s, FALSE)
        /\ UNCHANGED <<editingProfile, showDeleteConfirm>>

\* processUpdate after its await: callback(profiles), finally isProcessing = false
ProcessUpdateResume(s) ==
    \E i \in 1..Len(subFetch[s]) :
        /\ subFetch[s][i].st # "req"
        /\ subFetch' = [subFetch EXCEPT ![s] = RemoveAt(@, i)]
        /\ isProcessing' = [isProcessing EXCEPT ![s] = FALSE]
        /\ delivered' = [delivered EXCEPT ![s] = subFetch[s][i].data]
        /\ SubscriptionCallback(s, subFetch[s][i].data)
        /\ last' = Quiet
        /\ UNCHANGED <<remoteVars, subscribed, connVars, ops, nOps, failures>>
        /\ UNCHANGED gridVars

\* the effect's cleanup: subscription.unsubscribe()
Unsubscribe(s) ==
    /\ subscribed[s]
    /\ nOps < MaxOps
    /\ nOps' = nOps + 1
    /\ subscribed' = [subscribed EXCEPT ![s] = FALSE]
    /\ last' = Quiet
    /\ UNCHANGED <<remote, nextId, subVars, connVars, localVars, ops, failures>>
    /\ UNCHANGED gridVars

\* ------------------------------------------------- mount: test, then load
Answered(s, op, kind, pc) ==
    op \in ops[s] /\ op.kind = kind /\ op.pc = pc /\ op.st # "req"

\* testConnection().then(isConnected => ...); loadProfiles up to getProfiles
TestConnectionThen(s) ==
    \E op \in ops[s] :
        /\ Answered(s, op, "test", "test")
        /\ IF op.st = "ok"
           THEN /\ connectionStatus' = Set(connectionStatus, s, "Connected")
                /\ loading' = Set(loading, s, TRUE)
                /\ Replace(s, op, Op("load", "get", NoProfile))
           ELSE /\ connectionStatus' = Set(connectionStatus, s, "Connection failed")
                /\ loading' = Set(loading, s, FALSE)
                /\ Finish(s, op)
        /\ last' = Quiet
        /\ UNCHANGED <<remoteVars, subVars, subscribed, localVars, nOps, failures>>
        /\ UNCHANGED gridVars

\* setProfiles(list); setSelectedProfile(list[0] || null)
ShowList(s, list) ==
    /\ profiles' = Set(profiles, s, list)
    /\ selectedProfile' = Set(selectedProfile, s, First(list))
    /\ selAlias' = Set(selAlias, s, Len(list) > 0)
    /\ editSel' = Set(editSel, s, FALSE)
    /\ editList' = Set(editList, s, FALSE)
    /\ UNCHANGED <<editingProfile, showDeleteConfirm>>

\* loadProfiles takes a fetch of length 0 for an empty store
LoadSeesEmpty(op) == Len(op.data) = 0

\* loadProfiles after getProfiles: seed the defaults or show the stored list
LoadProfilesFetched(s) ==
    \E op \in ops[s] :
        /\ Answered(s, op, "load", "get")
        /\ IF LoadSeesEmpty(op)
           THEN /\ Replace(s, op, Op("load", "c1", Profile(0, Me, << >>)))
                /\ UNCHANGED <<localVars, loading>>
           ELSE /\ ShowList(s, op.data)
                /\ loading' = Set(loading, s, FALSE)
                /\ Finish(s, op)
        /\ last' = Quiet
        /\ UNCHANGED <<remoteVars, subVars, subscribed, connectionStatus, nOps,
                       failures>>
        /\ UNCHANGED gridVars

\* what createProfile returned, as a list: the row, or nothing for null
Created(op) == IF op.st = "ok" THEN op.data ELSE << >>

\* loadProfiles after createProfile("Me")
LoadProfilesSeeded1(s) ==
    \E op \in ops[s] :
        /\ Answered(s, op, "load", "c1")
        /\ Replace(s, op, [Op("load", "c2", Profile(0, MyFriend, << >>))
                              EXCEPT !.acc = Created(op)])
        /\ last' = Quiet
        /\ UNCHANGED <<remoteVars, subVars, subscribed, connVars, localVars, nOps,
                       failures>>
        /\ UNCHANGED gridVars

\* loadProfiles after createProfile("My Friend"): filter(Boolean), show
LoadProfilesSeeded2(s) ==
    \E op \in ops[s] :
        /\ Answered(s, op, "load", "c2")
        /\ ShowList(s, op.acc \o Created(op))
        /\ loading' = Set(loading, s, FALSE)
        /\ Finish(s, op)
        /\ last' = Quiet
        /\ UNCHANGED <<remoteVars, subVars, subscribed, connectionStatus, nOps,
                       failures>>
        /\ UNCHANGED gridVars

\* ------------------------------------------------------------ user actions
\* the main view is rendered: buttons can be clicked
Rendered(s) == subscribed[s] /\ ~loading[s]

\* the delete popup and the confirmation modal of the grid are full-screen
\* overlays: nothing under them can be clicked
Clickable(s) ==
    Rendered(s) /\ showDeleteConfirm[s] = 0 /\ ~confirmation[s].show

\* a click that calls no handler of the component
Click == nOps < MaxOps /\ nOps' = nOps + 1

Snapshot(s) == <<profiles[s], selectedProfile[s]>>

Invoke(s, op) ==
    /\ nOps < MaxOps
    /\ nOps' = nOps + 1
    /\ ops' = [ops EXCEPT ![s] = @ \cup {[op EXCEPT !.pre = Snapshot(s),
                                             !.sel = selectedProfile[s].id]}]

\* a profile button: onClick={() => setSelectedProfile(profile)}
SelectProfile(s) ==
    \E i \in 1..Len(profiles[s]) :
        /\ Clickable(s)
        /\ Click
        /\ ~(selAlias[s] /\ selectedProfile[s].id = profiles[s][i].id)
        /\ selectedProfile' = [selectedProfile EXCEPT ![s] = profiles[s][i]]
        /\ selAlias' = [selAlias EXCEPT ![s] = TRUE]
        /\ editSel' = [editSel EXCEPT ![s] =
                          editList[s] /\ editingProfile[s].id = profiles[s][i].id]
        /\ last' = Quiet
        /\ UNCHANGED <<remoteVars, subVars, subscribed, connVars, profiles,
                       editingProfile, editList, showDeleteConfirm, ops, failures>>
        /\ UNCHANGED gridVars

\* a test of the name as typed: !newProfileName
AddRefusedUntrimmed(name) == name = << >>

\* handleAddProfile returns at once: !newProfileName.trim()
AddRefused(name) == Trim(name) = << >>

\* handleAddProfile up to createProfile
HandleAddProfile(s, name) ==
    /\ Clickable(s)
    /\ IF AddRefused(name)
       THEN /\ last' = Step("handleAddProfile", s, "refused", name)
            /\ Click
            /\ UNCHANGED ops
       ELSE /\ Invoke(s, Op("add", "create", Profile(0, Trim(name), << >>)))
            /\ last' = Quiet
    /\ UNCHANGED <<remoteVars, subVars, subscribed, connVars, localVars,
                   failures>>
    /\ UNCHANGED gridVars

\* handleAddProfile after createProfile: null ends it, a row is refreshed
HandleAddProfileCreated(s) ==
    \E op \in ops[s] :
        /\ Answered(s, op, "add", "create")
        /\ IF op.st = "ok"
           THEN Replace(s, op, [op EXCEPT !.pc = "refresh", !.st = "req",
                                   !.acc = op.data, !.data = << >>])
           ELSE Finish(s, op)
        /\ last' = Quiet
        /\ UNCHANGED <<remoteVars, subVars, subscribed, connVars, localVars, nOps,
                       failures>>
        /\ UNCHANGED gridVars

\* handleAddProfile after getProfiles: show the list, select the new profile
HandleAddProfileRefreshed(s) ==
    \E op \in ops[s] :
        /\ Answered(s, op, "add", "refresh")
        /\ profiles' = Set(profiles, s, op.data)
        /\ selectedProfile' = Set(selectedProfile, s, op.acc[1])
        /\ selAlias' = Set(selAlias, s, FALSE)
        /\ editSel' = Set(editSel, s, FALSE)
        /\ editList' = Set(editList, s, FALSE)
        /\ Finish(s, op)
        /\ last' = Quiet
        /\ UNCHANGED <<remoteVars, subVars, subscribed, connVars, editingProfile,
                       showDeleteConfirm, nOps, failures>>
        /\ UNCHANGED gridVars

\* "Edit Name": setEditingProfile(selectedProfile), the same object
EditName(s) ==
    /\ Clickable(s)
    /\ Click
    /\ selectedProfile[s] # NoProfile
    /\ editingProfile[s].id # selectedProfile[s].id
    /\ editingProfile' = [editingProfile EXCEPT ![s] = selectedProfile[s]]
    /\ editSel' = [editSel EXCEPT ![s] = TRUE]
    /\ editList' = [editList EXCEPT ![s] = selAlias[s]]
    /\ last' = Quiet
    /\ UNCHANGED <<remoteVars, subVars, subscribed, connVars, profiles,
                   selectedProfile, selAlias, showDeleteConfirm, ops, failures>>
    /\ UNCHANGED gridVars

\* the name input: setEditingProfile({ ...editingProfile, name })
ChangeEditName(s, name) ==
    /\ Clickable(s)
    /\ Click
    /\ editingProfile[s] # NoProfile
    /\ editingProfile[s].id = selectedProfile[s].id
    /\ editingProfile[s].name # name
    /\ editingProfile' = [editingProfile EXCEPT ![s].name = name]
    /\ last' = Quiet
    /\ UNCHANGED <<remoteVars, subVars, subscribed, connVars, profiles,
                   selectedProfile, selAlias, editSel, editList,
                   showDeleteConfirm, ops, failures>>
    /\ UNCHANGED gridVars

\* "Cancel" beside the name input: setEditingProfile(null)
CancelEdit(s) ==
    /\ Clickable(s)
    /\ Click
    /\ editingProfile[s] # NoProfile
    /\ editingProfile[s].id = selectedProfile[s].id
    /\ editingProfile' = [editingProfile EXCEPT ![s] = NoProfile]
    /\ editSel' = [editSel EXCEPT ![s] = FALSE]
    /\ editList' = [editList EXCEPT ![s] = FALSE]
    /\ last' = Quiet
    /\ UNCHANGED <<remoteVars, subVars, subscribed, connVars, profiles,
                   selectedProfile, selAlias, showDeleteConfirm, ops, failures>>
    /\ UNCHANGED gridVars

\* "Save": handleUpdateProfile(editingProfile) up to updateProfile
SaveEdit(s) ==
    /\ Clickable(s)
    /\ editingProfile[s] # NoProfile
    /\ editingProfile[s].id = selectedProfile[s].id
    /\ Invoke(s, Op("save", "update", editingProfile[s]))
    /\ last' = Quiet
    /\ UNCHANGED <<remoteVars, subVars, subscribed, connVars, localVars,
                   failures>>
    /\ UNCHANGED gridVars

\* toggleChampionWin: indexOf, then splice or push on the array that
\* { ...selectedProfile } shares with selectedProfile, then
\* handleUpdateProfile(updatedProfile) up to updateProfile
ToggleChampionWin(s, champion) ==
    /\ selectedProfile[s] # NoProfile
    /\ LET arr == ToggleArray(selectedProfile[s].fpc, champion)
           id == selectedProfile[s].id
       IN  /\ selectedProfile' = [selectedProfile EXCEPT ![s].fpc = arr]
           /\ profiles' = [profiles EXCEPT ![s] =
                  IF selAlias[s]
                  THEN [i \in 1..Len(@) |->
                           IF @[i].id = id THEN [@[i] EXCEPT !.fpc = arr]
                           ELSE @[i]]
                  ELSE @]
           /\ editingProfile' = [editingProfile EXCEPT ![s] =
                  IF editSel[s] THEN [@ EXCEPT !.fpc = arr] ELSE @]
           /\ Invoke(s, [Op("toggle", "update",
                              [selectedProfile[s] EXCEPT !.fpc = arr])
                           EXCEPT !.key = champion])
    /\ UNCHANGED <<remoteVars, subVars, subscribed, connVars, selAlias,
                   editSel, editList, showDeleteConfirm, failures>>

\* a circle of the grid clicked and confirmed, taken as one click: the
\* modal opens and closes again, and the sound is left aside
ToggleConfirmed(s, champion) ==
    /\ Clickable(s)
    /\ ToggleChampionWin(s, champion)
    /\ last' = Quiet
    /\ UNCHANGED gridVars

\* the ImageGrid is rendered while a profile is selected
GridMounted(s) == Rendered(s) /\ selectedProfile[s] # NoProfile

\* a test that finds no champion completed
IsCompletedNever(s, championName) == FALSE

\* activeChampions.includes(championName)
IsCompleted(s, championName) == championName \in AsSet(selectedProfile[s].fpc)

\* handleCircleClick: only setConfirmation
HandleCircleClick(s, championName) ==
    /\ Clickable(s)
    /\ GridMounted(s)
    /\ Click
    /\ confirmation' = [confirmation EXCEPT ![s] =
           Confirmation(TRUE, championName,
                        IF IsCompleted(s, championName) THEN "remove" ELSE "add")]
    /\ last' = Quiet
    /\ UNCHANGED <<remoteVars, subVars, subscribed, connVars, localVars, ops,
                   failures, viewVars>>

\* playRandomSound is called: confirmation.action === "add"
PlaysSound(c) == c.action = "add"

\* confirmToggle: onChampionToggle(confirmation.championName), the sound on
\* "add", then the confirmation is reset
ConfirmToggle(s) ==
    /\ GridMounted(s)
    /\ confirmation[s].show
    /\ ToggleChampionWin(s, confirmation[s].championName)
    /\ last' = Step("confirmToggle", s,
                    IF PlaysSound(confirmation[s]) THEN "sound" ELSE "silent",
                    <<confirmation[s].championName>>)
    /\ confirmation' = [confirmation EXCEPT ![s] = NoConfirmation]
    /\ UNCHANGED viewVars

\* a.localeCompare(b) on champion names: negative, 0 or positive
LocaleCompare(a, b) ==
    LET Rank(n) == CHOOSE i \in 1..Len(Champions) : Champions[i] = n
    IN  IF Rank(a) < Rank(b) THEN -1 ELSE IF Rank(a) > Rank(b) THEN 1 ELSE 0

\* a comparator that applies sortDirection to the names in completion mode too
CompareDirectional(s, a, b) ==
    IF sortMode[s] = "completion" /\ IsCompleted(s, a) # IsCompleted(s, b)
    THEN IF sortDirection[s] = "asc"
         THEN IF IsCompleted(s, a) THEN -1 ELSE 1
         ELSE IF IsCompleted(s, a) THEN 1 ELSE -1
    ELSE IF sortDirection[s] = "asc"
         THEN LocaleCompare(a, b) ELSE LocaleCompare(b, a)

\* the comparator of sortedImages
Compare(s, a, b) ==
    IF sortMode[s] = "completion"
    THEN IF IsCompleted(s, a) # IsCompleted(s, b)
         THEN IF sortDirection[s] = "asc"
              THEN IF IsCompleted(s, a) THEN -1 ELSE 1
              ELSE IF IsCompleted(s, a) THEN 1 ELSE -1
         ELSE LocaleCompare(a, b)
    ELSE IF sortDirection[s] = "asc"
         THEN LocaleCompare(a, b) ELSE LocaleCompare(b, a)

RECURSIVE InsertSorted(_, _, _)
\* Array.prototype.sort is stable: x goes behind everything not greater
InsertSorted(s, sorted, x) ==
    IF sorted = << >> THEN <<x>>
    ELSE IF Compare(s, sorted[Len(sorted)], x) > 0
         THEN Append(InsertSorted(s, SubSeq(sorted, 1, Len(sorted) - 1), x),
                     sorted[Len(sorted)])
         ELSE Append(sorted, x)

RECURSIVE Sort(_, _)
\* [...list].sort(comparator)
Sort(s, list) ==
    IF list = << >> THEN << >>
    ELSE InsertSorted(s, Sort(s, SubSeq(list, 1, Len(list) - 1)),
                      list[Len(list)])

\* displayImages: the tiles the search leaves, all of them for no query
DisplayImages(s) == images

\* sortedImages, as names
SortedImages(s) == Sort(s, DisplayImages(s))

\* the select of the grid: setSortMode(e.target.value)
SetSortMode(s, mode) ==
    /\ Clickable(s)
    /\ GridMounted(s)
    /\ sortMode[s] # mode
    /\ sortMode' = [sortMode EXCEPT ![s] = mode]
    /\ last' = Quiet
    /\ UNCHANGED <<remoteVars, subVars, subscribed, connVars, localVars, ops,
                   nOps, failures, confirmation, sortDirection, images>>

\* the direction button: setSortDirection(prev => prev === "asc" ? "desc" : "asc")
ToggleSortDirection(s) ==
    /\ Clickable(s)
    /\ GridMounted(s)
    /\ sortDirection' = [sortDirection EXCEPT ![s] =
                            IF @ = "asc" THEN "desc" ELSE "asc"]
    /\ last' = Quiet
    /\ UNCHANGED <<remoteVars, subVars, subscribed, connVars, localVars, ops,
                   nOps, failures, confirmation, sortMode, images>>

\* cancelToggle: the confirmation is reset
CancelToggle(s) ==
    /\ GridMounted(s)
    /\ confirmation[s].show
    /\ Click
    /\ confirmation' = [confirmation EXCEPT ![s] = NoConfirmation]
    /\ last' = Quiet
    /\ UNCHANGED <<remoteVars, subVars, subscribed, connVars, localVars, ops,
                   failures, viewVars>>

\* handleUpdateProfile after updateProfile: null ends it; a row clears the
\* edit and is refreshed
HandleUpdateProfileUpdated(s) ==
    \E op \in ops[s] :
        /\ op.kind \in {"save", "toggle"}
        /\ Answered(s, op, op.kind, "update")
        /\ IF op.st = "ok"
           THEN /\ editingProfile' = Set(editingProfile, s, NoProfile)
                /\ editSel' = Set(editSel, s, FALSE)
                /\ editList' = Set(editList, s, FALSE)
                /\ Replace(s, op, [op EXCEPT !.pc = "refresh", !.st = "req",
                                      !.data = << >>])
           ELSE /\ Finish(s, op)
                /\ UNCHANGED <<editingProfile, editSel, editList>>
        /\ last' = Quiet
        /\ UNCHANGED <<remoteVars, subVars, subscribed, connVars, profiles,
                       selectedProfile, selAlias, showDeleteConfirm, nOps,
                       failures>>
        /\ UNCHANGED gridVars

\* handleUpdateProfile after getProfiles: show the list, reselect the profile
HandleUpdateProfileRefreshed(s) ==
    \E op \in ops[s] :
        /\ op.kind \in {"save", "toggle"}
        /\ Answered(s, op, op.kind, "refresh")
        /\ LET updatedSelected == Find(op.data, op.arg.id) IN
            /\ profiles' = Set(profiles, s, op.data)
            /\ selectedProfile' = Set(selectedProfile, s,
                   IF updatedSelected # NoProfile THEN updatedSelected
                   ELSE selectedProfile[s])
            /\ selAlias' = Set(selAlias, s, updatedSelected # NoProfile)
            /\ editSel' = Set(editSel, s,
                   IF updatedSelected # NoProfile THEN FALSE ELSE editSel[s])
            /\ editList' = Set(editList, s, FALSE)
        /\ Finish(s, op)
        /\ last' = Quiet
        /\ UNCHANGED <<remoteVars, subVars, subscribed, connVars, editingProfile,
                       showDeleteConfirm, nOps, failures>>
        /\ UNCHANGED gridVars

\* "Delete Profile", shown while profiles.length > 1
AskDelete(s) ==
    /\ Clickable(s)
    /\ Click
    /\ selectedProfile[s] # NoProfile
    /\ Len(profiles[s]) > 1
    /\ showDeleteConfirm[s] # selectedProfile[s].id
    /\ showDeleteConfirm' = [showDeleteConfirm EXCEPT ![s] = selectedProfile[s].id]
    /\ last' = Quiet
    /\ UNCHANGED <<remoteVars, subVars, subscribed, connVars, profiles,
                   selectedProfile, selAlias, editingProfile, editSel,
                   editList, ops, failures>>
    /\ UNCHANGED gridVars

\* "Cancel" of the delete popup
CancelDelete(s) ==
    /\ Rendered(s)
    /\ Click
    /\ showDeleteConfirm[s] # 0
    /\ showDeleteConfirm' = [showDeleteConfirm EXCEPT ![s] = 0]
    /\ last' = Quiet
    /\ UNCHANGED <<remoteVars, subVars, subscribed, connVars, profiles,
                   selectedProfile, selAlias, editingProfile, editSel,
                   editList, ops, failures>>
    /\ UNCHANGED gridVars

\* a guard that is off by one: profiles.length < 1
DeleteRefusedOnlyEmpty(s) == Len(profiles[s]) < 1

\* handleDeleteProfile returns at once: keep at least one profile
DeleteRefused(s) == Len(profiles[s]) <= 1

\* "Delete" of the popup: handleDeleteProfile(showDeleteConfirm) up to
\* deleteProfile, then setShowDeleteConfirm(null)
HandleDeleteProfile(s) ==
    /\ Rendered(s)
    /\ showDeleteConfirm[s] # 0
    /\ IF DeleteRefused(s)
       THEN /\ last' = Step("handleDeleteProfile", s, "refused", << >>)
            /\ Click
            /\ UNCHANGED ops
       ELSE /\ Invoke(s, Op("delete", "delete",
                            Profile(showDeleteConfirm[s], << >>, << >>)))
            /\ last' = Quiet
    /\ showDeleteConfirm' = [showDeleteConfirm EXCEPT ![s] = 0]
    /\ UNCHANGED <<remoteVars, subVars, subscribed, connVars, profiles,
                   selectedProfile, selAlias, editingProfile, editSel,
                   editList, failures>>
    /\ UNCHANGED gridVars

\* handleDeleteProfile after deleteProfile: false ends it, true is refreshed
HandleDeleteProfileDeleted(s) ==
    \E op \in ops[s] :
        /\ Answered(s, op, "delete", "delete")
        /\ IF op.st = "ok"
           THEN Replace(s, op, [op EXCEPT !.pc = "refresh", !.st = "req"])
           ELSE Finish(s, op)
        /\ last' = Quiet
        /\ UNCHANGED <<remoteVars, subVars, subscribed, connVars, localVars, nOps,
                       failures>>
        /\ UNCHANGED gridVars

\* handleDeleteProfile after getProfiles: show the list; move the selection
\* if the profile selected at the click was the one deleted
HandleDeleteProfileRefreshed(s) ==
    \E op \in ops[s] :
        /\ Answered(s, op, "delete", "refresh")
        /\ LET moved == op.sel # 0 /\ op.sel = op.arg.id IN
            /\ profiles' = Set(profiles, s, op.data)
            /\ selectedProfile' = Set(selectedProfile, s,
                   IF moved THEN First(op.data) ELSE selectedProfile[s])
            /\ selAlias' = Set(selAlias, s, moved /\ Len(op.data) > 0)
            /\ editSel' = Set(editSel, s, IF moved THEN FALSE ELSE editSel[s])
            /\ editList' = Set(editList, s, FALSE)
        /\ Finish(s, op)
        /\ last' = Quiet
        /\ UNCHANGED <<remoteVars, subVars, subscribed, connVars, editingProfile,
                       showDeleteConfirm, nOps, failures>>
        /\ UNCHANGED gridVars

\* -------------------------------------------------------------------- spec
\* mounting: every session tests the connection and loads, on an empty store
NextMount ==
    \/ \E s \in Sessions :
          \/ ServeTest(s)
          \/ TestConnectionThen(s)
          \/ LoadProfilesFetched(s)
          \/ LoadProfilesSeeded1(s)
          \/ LoadProfilesSeeded2(s)
          \/ ServeGetProfiles(s)
          \/ ServeCreateProfile(s)
          \/ ServeError(s)
          \/ ServeSubFetch(s)
          \/ ServeSubFetchError(s)
          \/ ProcessUpdateResume(s)
          \/ Unsubscribe(s)

SpecMount == Init /\ [][NextMount]_vars

\* the store after one loadProfiles has seeded the defaults into it
Seeded == <<Profile(1, Me, << >>), Profile(2, MyFriend, << >>)>>

\* ... and with two champions completed for the first
Stored == <<Profile(1, Me, <<"Ahri", "Zed">>), Profile(2, MyFriend, << >>)>>

\* every session has loaded the store and been refreshed, has its own
\* profile selected and is idle
InitReady ==
    /\ remote = Stored
    /\ nextId = 3
    /\ subFetch = [s \in Sessions |-> << >>]
    /\ isProcessing = [s \in Sessions |-> FALSE]
    /\ subscribed = [s \in Sessions |-> TRUE]
    /\ connectionStatus = [s \in Sessions |-> "Connected"]
    /\ loading = [s \in Sessions |-> FALSE]
    /\ profiles = [s \in Sessions |-> Stored]
    /\ selectedProfile = [s \in Sessions |-> Stored[s]]
    /\ selAlias = [s \in Sessions |-> TRUE]
    /\ editingProfile = [s \in Sessions |-> NoProfile]
    /\ editSel = [s \in Sessions |-> FALSE]
    /\ editList = [s \in Sessions |-> FALSE]
    /\ showDeleteConfirm = [s \in Sessions |-> 0]
    /\ confirmation = [s \in Sessions |-> NoConfirmation]
    /\ sortMode = [s \in Sessions |-> "alphabetical"]
    /\ sortDirection = [s \in Sessions |-> "asc"]
    /\ images = Tiles
    /\ ops = [s \in Sessions |-> {}]
    /\ delivered = [s \in Sessions |-> Stored]
    /\ nOps = 0
    /\ failures = 0
    /\ last = Quiet

\* the sessions in use
Next ==
    \/ \E s \in Sessions :
          \/ ServeGetProfiles(s)
          \/ ServeCreateProfile(s)
          \/ ServeUpdateProfile(s)
          \/ ServeDeleteProfile(s)
          \/ ServeError(s)
          \/ HandleAddProfileCreated(s)
          \/ HandleAddProfileRefreshed(s)
          \/ HandleUpdateProfileUpdated(s)
          \/ HandleUpdateProfileRefreshed(s)
          \/ HandleDeleteProfileDeleted(s)
          \/ HandleDeleteProfileRefreshed(s)
          \/ ServeSubFetch(s)
          \/ ServeSubFetchError(s)
          \/ ProcessUpdateResume(s)
          \/ Unsubscribe(s)
          \/ SelectProfile(s)
          \/ \E name \in NameInputs : HandleAddProfile(s, name)
          \/ EditName(s)
          \/ \E name \in RenameInputs : ChangeEditName(s, name)
          \/ CancelEdit(s)
          \/ SaveEdit(s)
          \/ \E champion \in Keys : ToggleConfirmed(s, champion)
          \/ AskDelete(s)
          \/ CancelDelete(s)
          \/ HandleDeleteProfile(s)

Spec == InitReady /\ [][Next]_vars

\* ... and every session has clicked "Delete Profile" on its profile
InitPopup ==
    /\ remote = Stored
    /\ nextId = 3
    /\ subFetch = [s \in Sessions |-> << >>]
    /\ isProcessing = [s \in Sessions |-> FALSE]
    /\ subscribed = [s \in Sessions |-> TRUE]
    /\ connectionStatus = [s \in Sessions |-> "Connected"]
    /\ loading = [s \in Sessions |-> FALSE]
    /\ profiles = [s \in Sessions |-> Stored]
    /\ selectedProfile = [s \in Sessions |-> Stored[s]]
    /\ selAlias = [s \in Sessions |-> TRUE]
    /\ editingProfile = [s \in Sessions |-> NoProfile]
    /\ editSel = [s \in Sessions |-> FALSE]
    /\ editList = [s \in Sessions |-> FALSE]
    /\ showDeleteConfirm = [s \in Sessions |-> Stored[s].id]
    /\ confirmation = [s \in Sessions |-> NoConfirmation]
    /\ sortMode = [s \in Sessions |-> "alphabetical"]
    /\ sortDirection = [s \in Sessions |-> "asc"]
    /\ images = Tiles
    /\ ops = [s \in Sessions |-> {}]
    /\ delivered = [s \in Sessions |-> Stored]
    /\ nOps = 0
    /\ failures = 0
    /\ last = Quiet

\* the sessions in use, the name edit left aside
NextDelete ==
    \/ \E s \in Sessions :
          \/ ServeGetProfiles(s)
          \/ ServeCreateProfile(s)
          \/ ServeUpdateProfile(s)
          \/ ServeDeleteProfile(s)
          \/ ServeError(s)
          \/ HandleAddProfileCreated(s)
          \/ HandleAddProfileRefreshed(s)
          \/ HandleUpdateProfileUpdated(s)
          \/ HandleUpdateProfileRefreshed(s)
          \/ HandleDeleteProfileDeleted(s)
          \/ HandleDeleteProfileRefreshed(s)
          \/ ServeSubFetch(s)
          \/ ServeSubFetchError(s)
          \/ ProcessUpdateResume(s)
          \/ Unsubscribe(s)
          \/ SelectProfile(s)
          \/ \E name \in NameInputs : HandleAddProfile(s, name)
          \/ \E champion \in Keys : ToggleConfirmed(s, champion)
          \/ AskDelete(s)
          \/ CancelDelete(s)
          \/ HandleDeleteProfile(s)

SpecDelete == InitPopup /\ [][NextDelete]_vars

\* every session has selected the first profile and clicked "Edit Name"
InitEdit ==
    /\ remote = Stored
    /\ nextId = 3
    /\ subFetch = [s \in Sessions |-> << >>]
    /\ isProcessing = [s \in Sessions |-> FALSE]
    /\ subscribed = [s \in Sessions |-> TRUE]
    /\ connectionStatus = [s \in Sessions |-> "Connected"]
    /\ loading = [s \in Sessions |-> FALSE]
    /\ profiles = [s \in Sessions |-> Stored]
    /\ selectedProfile = [s \in Sessions |-> Stored[1]]
    /\ selAlias = [s \in Sessions |-> TRUE]
    /\ editingProfile = [s \in Sessions |-> Stored[1]]
    /\ editSel = [s \in Sessions |-> TRUE]
    /\ editList = [s \in Sessions |-> TRUE]
    /\ showDeleteConfirm = [s \in Sessions |-> 0]
    /\ confirmation = [s \in Sessions |-> NoConfirmation]
    /\ sortMode = [s \in Sessions |-> "alphabetical"]
    /\ sortDirection = [s \in Sessions |-> "asc"]
    /\ images = Tiles
    /\ ops = [s \in Sessions |-> {}]
    /\ delivered = [s \in Sessions |-> Stored]
    /\ nOps = 0
    /\ failures = 0
    /\ last = Quiet

SpecEdit == InitEdit /\ [][Next]_vars

\* every session has clicked a circle of the grid on its own profile: the
\* first the one of "Zed", which it has completed, the second the one of
\* "Ahri", which it has not
InitConfirm ==
    /\ remote = Stored
    /\ nextId = 3
    /\ subFetch = [s \in Sessions |-> << >>]
    /\ isProcessing = [s \in Sessions |-> FALSE]
    /\ subscribed = [s \in Sessions |-> TRUE]
    /\ connectionStatus = [s \in Sessions |-> "Connected"]
    /\ loading = [s \in Sessions |-> FALSE]
    /\ profiles = [s \in Sessions |-> Stored]
    /\ selectedProfile = [s \in Sessions |-> Stored[s]]
    /\ selAlias = [s \in Sessions |-> TRUE]
    /\ editingProfile = [s \in Sessions |-> NoProfile]
    /\ editSel = [s \in Sessions |-> FALSE]
    /\ editList = [s \in Sessions |-> FALSE]
    /\ showDeleteConfirm = [s \in Sessions |-> 0]
    /\ confirmation = [s \in Sessions |->
                          IF s = 1 THEN Confirmation(TRUE, "Zed", "remove")
                          ELSE Confirmation(TRUE, "Ahri", "add")]
    /\ sortMode = [s \in Sessions |-> "alphabetical"]
    /\ sortDirection = [s \in Sessions |-> "asc"]
    /\ images = Tiles
    /\ ops = [s \in Sessions |-> {}]
    /\ delivered = [s \in Sessions |-> Stored]
    /\ nOps = 0
    /\ failures = 0
    /\ last = Quiet

\* the sessions in use with the grid's modal; name edit and delete left aside
NextGrid ==
    \/ \E s \in Sessions :
          \/ ServeGetProfiles(s)
          \/ ServeCreateProfile(s)
          \/ ServeUpdateProfile(s)
          \/ ServeError(s)
          \/ HandleAddProfileCreated(s)
          \/ HandleAddProfileRefreshed(s)
          \/ HandleUpdateProfileUpdated(s)
          \/ HandleUpdateProfileRefreshed(s)
          \/ ServeSubFetch(s)
          \/ ServeSubFetchError(s)
          \/ ProcessUpdateResume(s)
          \/ Unsubscribe(s)
          \/ SelectProfile(s)
          \/ \E name \in NameInputs : HandleAddProfile(s, name)
          \/ \E championName \in Keys : HandleCircleClick(s, championName)
          \/ ConfirmToggle(s)
          \/ CancelToggle(s)

SpecGrid == InitConfirm /\ [][NextGrid]_vars

\* every list of champion names without repetition
Arrangements ==
    {q \in UNION {[1..n -> Range(Champions)] : n \in 0..Len(Champions)} :
        NoDup(q)}

\* the store with a given completed-set for the first profile
StoredWith(f) == <<Profile(1, Me, f), Profile(2, MyFriend, << >>)>>

\* every session has loaded and shows the first profile in the grid; any
\* tiles, any completed-set
InitSort ==
    /\ \E f \in Arrangements :
          /\ remote = StoredWith(f)
          /\ profiles = [s \in Sessions |-> StoredWith(f)]
          /\ selectedProfile = [s \in Sessions |-> StoredWith(f)[1]]
          /\ delivered = [s \in Sessions |-> StoredWith(f)]
    /\ images \in Arrangements
    /\ nextId = 3
    /\ subFetch = [s \in Sessions |-> << >>]
    /\ isProcessing = [s \in Sessions |-> FALSE]
    /\ subscribed = [s \in Sessions |-> TRUE]
    /\ connectionStatus = [s \in Sessions |-> "Connected"]
    /\ loading = [s \in Sessions |-> FALSE]
    /\ selAlias = [s \in Sessions |-> TRUE]
    /\ editingProfile = [s \in Sessions |-> NoProfile]
    /\ editSel = [s \in Sessions |-> FALSE]
    /\ editList = [s \in Sessions |-> FALSE]
    /\ showDeleteConfirm = [s \in Sessions |-> 0]
    /\ confirmation = [s \in Sessions |-> NoConfirmation]
    /\ sortMode = [s \in Sessions |-> "alphabetical"]
    /\ sortDirection = [s \in Sessions |-> "asc"]
    /\ ops = [s \in Sessions |-> {}]
    /\ nOps = 0
    /\ failures = 0
    /\ last = Quiet

\* the sort controls of the grid
NextSort ==
    \/ \E s \in Sessions :
          \/ \E mode \in {"completion", "alphabetical"} : SetSortMode(s, mode)
          \/ ToggleSortDirection(s)

SpecSort == InitSort /\ [][NextSort]_vars

\* ------------------------------------------------------------------ claims
\* a refresh fetch of the subscription of s is in flight
Refreshing(s) == Len(subFetch[s]) > 0

\* the handler invocation op of s ends in this step on a failed request
EndsFailed(s, op) ==
    /\ op \in ops[s]
    /\ op.st = "err"
    /\ op \notin ops'[s]

\* C1: once the store holds a profile it always holds one: no interleaving
\* of the sessions' operations deletes the last profile.
C1_AtLeastOneProfile == Len(remote) >= 1

\* C2: after unsubscribe() the subscription callback is never invoked again:
\* no step of an unsubscribed session resumes processUpdate into callback.
C2_NoCallbackAfterUnsubscribe ==
    [][\A s \in Sessions :
          ~subscribed[s] =>
              ~ProcessUpdateResume(s)]_vars

\* C3: a subscription never has more than one refresh fetch in flight; a
\* change of the table that reaches a subscribed session while its refresh
\* is in flight starts no fetch and leaves nothing queued, and one that
\* reaches it with no refresh in flight starts exactly one fetch.
C3_OneRefreshInFlight ==
    [][\A s \in Sessions :
          /\ Len(subFetch'[s]) <= 1
          /\ (remote' # remote /\ subscribed[s]) =>
                IF Refreshing(s)
                THEN subFetch'[s] = subFetch[s]
                ELSE subFetch'[s] = <<Fetch("req", << >>)>>]_vars

\* C3 witness: the answer in flight is older than the table, so a change
\* reached the session during the refresh and was dropped.
C3_DroppedDuringRefresh ==
    \E s \in Sessions :
        /\ subscribed[s]
        /\ Len(subFetch[s]) = 1
        /\ subFetch[s][1].st = "ok"
        /\ subFetch[s][1].data # remote

\* C4: with no request failed, whenever a subscribed session has no refresh
\* in flight (and every change has been notified), the collection last
\* delivered to its callback is the content of the store.
C4_QuiescentDeliveredIsRemote ==
    \A s \in Sessions :
        (subscribed[s] /\ ~Refreshing(s) /\ failures = 0)
            => delivered[s] = remote

\* C5: a toggle removes the key if the completed-set holds it and adds it
\* otherwise, the store persists exactly the toggled array, and toggling
\* the same key again gives back the set held before the first toggle.
C5_ToggleTwiceRestores ==
    \A s \in Sessions : \A op \in ops[s] :
        op.kind = "toggle" =>
            LET before == op.pre[2].fpc
                after == op.arg.fpc
            IN  /\ op.key \in AsSet(before)
                      => AsSet(after) = AsSet(before) \ {op.key}
                /\ op.key \notin AsSet(before)
                      => AsSet(after) = AsSet(before) \cup {op.key}
                /\ AsSet(ToggleArray(after, op.key)) = AsSet(before)
                /\ (op.pc = "update" /\ op.st = "ok")
                      => Find(op.data, op.arg.id).fpc = after

\* C5 witness: the second of two successive toggles of "Ahri" on profile 1
\* has been persisted: the first removed it from <<"Ahri", "Zed">>, the
\* second put it back behind "Zed": the same set in another order.
C5_ToggledTwice ==
    \E s \in Sessions : \E op \in ops[s] :
        /\ op.kind = "toggle" /\ op.pc = "refresh" /\ op.key = "Ahri"
        /\ op.pre[2].fpc = <<"Zed">>
        /\ Find(remote, op.arg.id).fpc = <<"Zed", "Ahri">>
        /\ AsSet(Find(remote, op.arg.id).fpc) = AsSet(Stored[1].fpc)

\* C6: handleDeleteProfile called while the session's collection holds
\* exactly one profile sends no request and leaves the store, the
\* collection and the selection as they were.
C6_DeleteLastIsNoOp ==
    [][\A s \in Sessions :
          (Len(profiles[s]) = 1 /\ HandleDeleteProfile(s)) =>
              /\ ops' = ops
              /\ remote' = remote
              /\ profiles' = profiles
              /\ selectedProfile' = selectedProfile]_vars

\* C6 witness: a delete was refused with one profile left
C6_DeleteRefusedAtOne ==
    \E s \in Sessions :
        /\ last = Step("handleDeleteProfile", s, "refused", << >>)
        /\ Len(profiles[s]) = 1

\* a name of whitespace only (the empty name too)
Blank(name) == \A i \in 1..Len(name) : name[i] = SP

\* C7: handleAddProfile with a name that is empty after trimming sends no
\* request, creates no profile and leaves collection and selection alone.
C7_BlankNameCreatesNothing ==
    [][\A s \in Sessions : \A name \in NameInputs :
          (Blank(name) /\ HandleAddProfile(s, name)) =>
              /\ ops' = ops
              /\ remote' = remote
              /\ profiles' = profiles
              /\ selectedProfile' = selectedProfile]_vars

\* C7 witness: a name of one space was refused
C7_SpaceRefused ==
    \E s \in Sessions : last = Step("handleAddProfile", s, "refused", <<SP>>)

\* C8: with no request failed, the loadProfiles that found the store empty
\* and has created its defaults leaves the store holding exactly the two
\* profiles "Me" and "My Friend", each with an empty completed-set; the
\* loadProfiles that found the store non-empty creates nothing and shows
\* the fetched list, which is the store in creation order.
C8_LoadSeedsExactlyTwo ==
    [][\A s \in Sessions : \A op \in ops[s] :
          (/\ failures = 0
           /\ op.kind = "load" /\ op.st = "ok"
           /\ op \notin ops'[s]) =>
              /\ op.pc = "c2" => remote' = Seeded
              /\ (op.pc = "get" /\ ~LoadSeesEmpty(op)) =>
                    /\ ops'[s] = ops[s] \ {op}
                    /\ remote' = remote
                    /\ subscribed[s] => profiles'[s] = op.data]_vars

\* C9: when the fetch of loadProfiles fails, the session's collection is
\* empty, the session shows "Connection failed", and no default profile is
\* being created.
C9_FailedLoadSeedsNothing ==
    [][\A s \in Sessions : \A op \in ops[s] :
          (op.kind = "load" /\ op.pc = "get" /\ EndsFailed(s, op)) =>
              /\ profiles'[s] = << >>
              /\ connectionStatus'[s] = "Connection failed"
              /\ \A o \in ops'[s] : o.pc \notin {"c1", "c2"}]_vars

\* C10: when the create, update or delete request of a create, rename,
\* toggle or delete fails, the session's collection and selected profile
\* (its completed-set too) are what they were when the handler was called.
\* Stated for an operation issued alone, so that no other operation and no
\* change of the store comes between the call and the failure.
C10_FailedOperationChangesNothing ==
    [][\A s \in Sessions : \A op \in ops[s] :
          (/\ nOps = 1
           /\ op.kind \in {"add", "save", "toggle", "delete"}
           /\ op.pc \in {"create", "update", "delete"}
           /\ EndsFailed(s, op))
              => <<profiles'[s], selectedProfile'[s]>> = op.pre]_vars

\* the store serves, in this step, the updateProfile of the "Save" op of s
SaveServed(s, op) ==
    /\ op \in ops[s]
    /\ op.kind = "save" /\ op.pc = "update" /\ op.st = "req"
    /\ [op EXCEPT !.st = "ok", !.data = <<Find(remote', op.arg.id)>>] \in ops'[s]
    /\ op \notin ops'[s]

\* C11: persisting a rename leaves the completed-set the store holds for
\* that profile as it was immediately before, whatever happened to the set
\* between "Edit Name" and "Save".
C11_RenameKeepsCompletedSet ==
    [][\A s \in Sessions : \A op \in ops[s] :
          SaveServed(s, op) =>
              Find(remote', op.arg.id).fpc = Find(remote, op.arg.id).fpc]_vars

\* the connection state the loading render shows for s: connectionStatus,
\* and under "Connected" whether loadProfiles is still running
ConnectionState(s) ==
    IF connectionStatus[s] = "Testing..." THEN "Testing"
    ELSE IF connectionStatus[s] = "Connection failed" THEN "Failed"
    ELSE IF loading[s] THEN "Loading" ELSE "Ready"

\* C12: the connection state of a session moves only from Testing to
\* Loading (connected) or Failed and from Loading to Ready, and Failed is
\* terminal: in a session whose connection test has failed no step changes
\* the connection state or the session's profile collection.
C12_FailedIsTerminal ==
    [][\A s \in Sessions :
          /\ ConnectionState(s)' # ConnectionState(s) =>
                <<ConnectionState(s), ConnectionState(s)'>> \in
                    {<<"Testing", "Loading">>, <<"Testing", "Failed">>,
                     <<"Loading", "Ready">>}
          /\ ConnectionState(s) = "Failed" =>
                /\ ConnectionState(s)' = "Failed"
                /\ profiles'[s] = profiles[s]]_vars

\* C17: with no request failed, when the subscription callback of a mounted
\* session receives a list, a selected profile whose id is in the list stays selected (as the
\* delivered profile of that id); the selection becomes the first delivered
\* profile, or none, only if the selected profile is not in the list or
\* nothing was selected.
C17_RefreshKeepsSelection ==
    [][\A s \in Sessions :
          (failures = 0 /\ subscribed[s] /\ ProcessUpdateResume(s)) =>
              LET list == delivered'[s]
                  cur == selectedProfile[s]
              IN  IF cur # NoProfile /\ Find(list, cur.id) # NoProfile
                  THEN selectedProfile'[s] = Find(list, cur.id)
                  ELSE selectedProfile'[s] = First(list)]_vars

\* C16: no completed-set holds a key twice: not in the store, not in a
\* session's collection, selected or edited profile, not in the payload of
\* an update in flight.
C16_NoDuplicateKeys ==
    /\ \A i \in 1..Len(remote) : NoDup(remote[i].fpc)
    /\ \A s \in Sessions :
          /\ \A i \in 1..Len(profiles[s]) : NoDup(profiles[s][i].fpc)
          /\ NoDup(selectedProfile[s].fpc)
          /\ NoDup(editingProfile[s].fpc)
          /\ \A op \in ops[s] : NoDup(op.arg.fpc)

\* C16 witness: a session toggled a key while its earlier toggle was still
\* in flight, and the later toggle added the key again.
C16_ToggledWhileInFlight ==
    \E s \in Sessions : \E o1, o2 \in ops[s] :
        /\ o1 # o2
        /\ o1.kind = "toggle" /\ o2.kind = "toggle"
        /\ o1.key = o2.key
        /\ o1.key \notin AsSet(o1.arg.fpc)
        /\ o2.key \in AsSet(o2.arg.fpc)

\* the toggleChampionWin calls s makes in this step
ToggleCalls(s) ==
    {o \in ops'[s] \ ops[s] :
        o.kind = "toggle" /\ o.pc = "update" /\ o.st = "req"}

\* C13: a click on a circle only sets the pending confirmation, with action
\* "add" if the key is not in the completed-set shown and "remove" if it is,
\* and changes no profile and calls nothing; toggleChampionWin is called
\* only by a confirm of a pending confirmation, once, which clears it;
\* cancel clears the pending confirmation and changes nothing else.
C13_ToggleNeedsConfirm ==
    [][\A s \in Sessions :
          /\ \A k \in Keys :
                HandleCircleClick(s, k) =>
                    /\ confirmation'[s] =
                          Confirmation(TRUE, k,
                              IF k \in AsSet(selectedProfile[s].fpc)
                              THEN "remove" ELSE "add")
                    /\ UNCHANGED <<remote, profiles, selectedProfile, ops>>
          /\ ToggleCalls(s) # {} =>
                /\ confirmation[s].show
                /\ ConfirmToggle(s)
                /\ Cardinality(ToggleCalls(s)) = 1
                /\ \A o \in ToggleCalls(s) : o.key = confirmation[s].championName
                /\ confirmation'[s] = NoConfirmation
          /\ CancelToggle(s) =>
                /\ confirmation'[s] = NoConfirmation
                /\ UNCHANGED <<remote, profiles, selectedProfile, ops>>]_vars

\* C13 witness: the first session cancelled its pending removal of "Zed"
\* and clicked the circle of "Ahri", which it has completed
C13_CancelledAndRequested ==
    /\ confirmation[1] = Confirmation(TRUE, "Ahri", "remove")
    /\ selectedProfile[1].fpc = Stored[1].fpc
    /\ ops[1] = {}

\* C14: a confirm plays the sound exactly if the toggle it commits adds the
\* key to the completed-set of the selected profile.
C14_SoundIffAdded ==
    [][\A s \in Sessions :
          ConfirmToggle(s) =>
              LET key == confirmation[s].championName IN
              (last'.info = "sound") <=>
                  (/\ key \notin AsSet(selectedProfile[s].fpc)
                   /\ key \in AsSet(selectedProfile'[s].fpc))]_vars

\* the number of times x occurs in the list
Count(list, x) == Cardinality({i \in 1..Len(list) : list[i] = x})

\* C15: in completion mode sortedImages is the tiles rearranged, with every
\* completed tile before every other tile if the direction is "asc" and
\* behind them if it is "desc", and inside both groups in ascending name
\* order whatever the direction.
C15_CompletionSort ==
    \A s \in Sessions :
        sortMode[s] = "completion" =>
            LET out == SortedImages(s) IN
            /\ Len(out) = Len(DisplayImages(s))
            /\ \A x \in Range(Champions) : Count(out, x) = Count(DisplayImages(s), x)
            /\ \A i, j \in 1..Len(out) :
                  i < j =>
                      IF IsCompleted(s, out[i]) # IsCompleted(s, out[j])
                      THEN IsCompleted(s, out[i]) <=> sortDirection[s] = "asc"
                      ELSE LocaleCompare(out[i], out[j]) <= 0

\* C15 witness: tiles Ahri, Zed, Lux with Zed completed are shown as Zed,
\* Ahri, Lux in ascending completion mode
C15_ScenarioA ==
    \E s \in Sessions :
        /\ DisplayImages(s) = <<"Ahri", "Zed", "Lux">>
        /\ selectedProfile[s].fpc = <<"Zed">>
        /\ sortMode[s] = "completion" /\ sortDirection[s] = "asc"
        /\ SortedImages(s) = <<"Zed", "Ahri", "Lux">>

====
